---- MODULE Spec2Model ----
(***************************************************************************)
(* Model of examples/plot_data_augmentation_search.py: the augmentation    *)
(* catalog (three linspace sweeps), the session split, and the run of      *)
(* GridSearchCV(cv=KFold(2, shuffle, seed), scoring='accuracy',            *)
(* refit=True, error_score='raise', return_train_score=True) followed by   *)
(* the best_run report and the scoring on the evaluation session.          *)
(*                                                                         *)
(* Numbers.  Range bounds are held in tenths (0.1 is 1, 2 is 20).  A       *)
(* swept value is held as a numerator over Den, a transform parameter as a *)
(* fraction [num, den]; accuracies are held in units of 1/Scale, and the   *)
(* reported percentages in hundredths of a percent.  All arithmetic is     *)
(* exact.                                                                  *)
(***************************************************************************)
EXTENDS Integers, Sequences, FiniteSets, TLC

VARIABLES
    pc,              \* position of the script
    err,             \* "" or the exception that ended the script
    session,         \* windows_dataset: session[i] is the session of window i
    sfreq,           \* dataset.datasets[0].raw.info['sfreq']
    ranges,          \* per kind <<lower, upper>> handed to linspace, in tenths
    counts,          \* per kind the number of samples handed to linspace
    train_set,       \* splitted['session_T'] (set of window indices)
    eval_set,        \* splitted['session_E']
    transforms_freq, transforms_time, transforms_spatial,
    transforms,      \* param_grid['iterator_train__transforms']
    cuda,            \* torch.cuda.is_available()
    cudnn_benchmark, \* torch.backends.cudnn.benchmark
    seeded,          \* set_random_seeds has been called
    folds,           \* list(cv.split(train_X)): sequence of [train, test]
    out,             \* results of the _fit_and_score calls made so far
    results,         \* the local results of GridSearchCV.fit ([] until ranked)
    cv_results_,     \* search.cv_results_ ([] until the search has ranked)
    best_index_,     \* search.best_index_ (0 until set)
    best_estimator_, \* search.best_estimator_ ([] until refit)
    best_run,        \* rows of cv_results_ with rank 1, squeezed
    best_aug,        \* best_run['params']
    validation_score, training_score,   \* the two numbers of report_message
    score,           \* search.score(eval_X, eval_y) ([] until computed)
    events,          \* history: the calls made, in order
    run,             \* number of the current execution of the script
    prev             \* what the previous execution produced ([] in the first)

vars == << pc, err, session, sfreq, ranges, counts, train_set, eval_set,
           transforms_freq, transforms_time, transforms_spatial, transforms,
           cuda, cudnn_benchmark, seeded, folds, out, results, cv_results_, best_index_,
           best_estimator_, best_run, best_aug, validation_score,
           training_score, score, events, run, prev >>

(***************************************************************************)
(* Bounds of the model                                                     *)
(***************************************************************************)
\* largest sample count handed to one linspace call
MaxCount == 2
\* largest CandidateGrid the search is run on
MaxGrid == 2

(***************************************************************************)
(* Constants of the script                                                 *)
(***************************************************************************)
seed == 20200220
n_splits == 2
probability == 5
BNCI2014001Sfreq == 250
ScriptRanges == << <<0, 10>>, <<1, 20>>, <<0, 10>> >>
Kinds == << "FTSurrogate", "SmoothTimeMask", "ChannelsDropout" >>

(***************************************************************************)
(* Arithmetic helpers                                                      *)
(***************************************************************************)
RECURSIVE Fact(_)
Fact(n) == IF n <= 1 THEN 1 ELSE n * Fact(n - 1)

RECURSIVE SumSeq(_)
SumSeq(s) == IF s = << >> THEN 0 ELSE Head(s) + SumSeq(Tail(s))

\* Python's int(): truncation toward zero of num/den (den > 0)
IntTrunc(num, den) == IF num >= 0 THEN num \div den ELSE -((-num) \div den)

\* numpy.around: nearest integer of num/den (num >= 0, den > 0), halves to even
RoundHalfEven(num, den) ==
    LET q == num \div den
        r == num % den
    IN  IF 2 * r < den THEN q
        ELSE IF 2 * r > den THEN q + 1
        ELSE IF q % 2 = 0 THEN q ELSE q + 1

\* swept values are numerators over Den; bounds in tenths scale by Unit
Unit == Fact(MaxCount)
Den == 10 * Unit

(***************************************************************************)
(* Transform catalog (lines 141-153, 258)                                  *)
(***************************************************************************)
\* linspace with the endpoint left out (endpoint=False)
linspace_open(start, stop, num) ==
    [i \in 1..num |-> (((i - 1) * (stop - start) * Unit) \div num) + start * Unit]

\* numpy.linspace(start, stop, num), endpoint=True; start, stop in tenths
linspace(start, stop, num) ==
    LET div == num - 1
        delta == (stop - start) * Unit
        y == [i \in 1..num |->
                IF div > 0 THEN (((i - 1) * delta) \div div) + start * Unit
                ELSE (i - 1) * delta + start * Unit]
    IN  IF num > 1 THEN [y EXCEPT ![num] = stop * Unit] ELSE y

FTSurrogate(phase_noise_magnitude) ==
    [kind |-> "FTSurrogate", probability |-> probability,
     param |-> [num |-> phase_noise_magnitude, den |-> Den],
     random_state |-> seed]

SmoothTimeMask(mask_len_samples) ==
    [kind |-> "SmoothTimeMask", probability |-> probability,
     param |-> [num |-> mask_len_samples, den |-> 1],
     random_state |-> seed]

ChannelsDropout(p_drop) ==
    [kind |-> "ChannelsDropout", probability |-> probability,
     param |-> [num |-> p_drop, den |-> Den],
     random_state |-> seed]

\* the parameter of SmoothTimeMask: int(sfreq * second)
MaskLen(fs, second) == IntTrunc(fs * second, Den)

BuildFreq(rg, num) ==
    LET ls == linspace(rg[1], rg[2], num)
    IN  [i \in 1..Len(ls) |-> FTSurrogate(ls[i])]

BuildTime(fs, rg, num) ==
    LET ls == linspace(rg[1], rg[2], num)
    IN  [i \in 1..Len(ls) |-> SmoothTimeMask(MaskLen(fs, ls[i]))]

BuildSpatial(rg, num) ==
    LET ls == linspace(rg[1], rg[2], num)
    IN  [i \in 1..Len(ls) |-> ChannelsDropout(ls[i])]

(***************************************************************************)
(* Session split (lines 117-119) and the data handed to the search         *)
(***************************************************************************)
Windows == DOMAIN session

SplitBy(name) == {i \in Windows : session[i] = name}

\* the search fitted on the windows before the session split
train_X_unsplit == Windows

\* train_X = SliceDataset(train_set, idx=0), the X of search.fit (line 246)
train_X == train_set

\* eval_X = SliceDataset(eval_set, idx=0), the X of search.score (line 300)
eval_X == eval_set

(***************************************************************************)
(* KFold(n_splits=2, shuffle=True, random_state=seed).split                *)
(***************************************************************************)
Perms(S) == {p \in [1..Cardinality(S) -> S] :
                \A i, j \in 1..Cardinality(S) : p[i] = p[j] => i = j}

\* fold_sizes: n // n_splits each, the first n % n_splits one more
FoldSize(n, k) == (n \div n_splits) + (IF k <= n % n_splits THEN 1 ELSE 0)

RECURSIVE FoldStart(_, _)
FoldStart(n, k) == IF k = 1 THEN 0 ELSE FoldStart(n, k - 1) + FoldSize(n, k - 1)

\* the folds of X for the shuffled order p of its windows
KFoldSplit(X, p) ==
    LET n == Cardinality(X)
    IN  [k \in 1..n_splits |->
           LET test == {p[i] : i \in (FoldStart(n, k) + 1)..(FoldStart(n, k) + FoldSize(n, k))}
           IN  [train |-> X \ test, test |-> test]]

\* a KFold with random_state=None
KFoldRandomState_none == << >>

\* random_state of the KFold (line 255): an integer fixes the shuffle
KFoldRandomState == << seed >>

\* the splits cv.split can yield: unconstrained in a first execution; with an
\* integer random_state the same as those of the previous execution on the same X
SplitChoices(X) ==
    LET all == {KFoldSplit(X, p) : p \in Perms(X)}
    IN  IF KFoldRandomState # << >> /\ prev # << >> /\ prev[1].folds # << >>
           /\ prev[1].X = X
        THEN {prev[1].folds}
        ELSE all

(***************************************************************************)
(* One _fit_and_score call, and the scorer                                 *)
(***************************************************************************)
\* the datasets the script is run on: the windows of session_T come first
Datasets ==
    { << "session_T", "session_T", "session_E" >>,
      << "session_T", "session_E", "session_E" >> }

MaxWindows == CHOOSE n \in {Len(d) : d \in Datasets} :
                 \A d \in Datasets : Len(d) <= n

\* accuracies are numerators over Scale; the size of any data scored divides it
Scale == n_splits * Fact(MaxWindows)

\* scoring='accuracy': correct predictions over the size of the data scored
Accuracy(correct, X) == (correct * Scale) \div Cardinality(X)

\* set_random_seeds(seed, cuda) was called and cudnn does not pick kernels
\* by benchmark (lines 174-184): training repeats itself
Reproducible == seeded /\ ~cudnn_benchmark

\* the folds forgotten in the number of calls
NFits_candidates == Len(transforms)

\* cross-validation order: product(enumerate(candidates), enumerate(splits))
CandOf(j) == ((j - 1) \div n_splits) + 1
SplitOf(j) == ((j - 1) % n_splits) + 1

\* number of _fit_and_score calls of the search
NFits == Len(transforms) * n_splits

\* what the j-th call can return or raise: any accuracy pair, or a failure;
\* a reproducible training repeats what it did on the same inputs
FitOutcomes(j) ==
    LET f == folds[SplitOf(j)]
        any == {[failed |-> TRUE, test_score |-> 0, train_score |-> 0]} \cup
               {[failed |-> FALSE,
                 test_score |-> Accuracy(vc, f.test),
                 train_score |-> Accuracy(tc, f.train)] :
                   vc \in 0..Cardinality(f.test), tc \in 0..Cardinality(f.train)}
    IN  IF /\ Reproducible /\ prev # << >>
           /\ j <= Len(prev[1].out)
           /\ prev[1].grid[CandOf(j)] = transforms[CandOf(j)]
           /\ prev[1].folds = folds
        THEN {[failed |-> FALSE,
               test_score |-> prev[1].out[j].test_score,
               train_score |-> prev[1].out[j].train_score]}
        ELSE any

\* a numeric error_score: the failed candidate is scored and the search goes on
error_score_nan == "nan"

\* error_score of the GridSearchCV (line 274)
error_score == "raise"

(***************************************************************************)
(* GridSearchCV._format_results and the choice of best_index_              *)
(***************************************************************************)
ScoresOf(o, c, field) ==
    [s \in 1..n_splits |-> o[(c - 1) * n_splits + s][field]]

\* the split scores summed, not averaged
MeanScore_sum(o, c, field) == SumSeq(ScoresOf(o, c, field))

\* np.average over the splits
MeanScore(o, c, field) == SumSeq(ScoresOf(o, c, field)) \div n_splits

\* the means ranked without the negation: rank 1 to the lowest
RankMin_ascending(means) ==
    [c \in 1..Len(means) |->
        1 + Cardinality({d \in 1..Len(means) : means[d] < means[c]})]

\* rankdata(-means, method='min')
RankMin(means) ==
    [c \in 1..Len(means) |->
        1 + Cardinality({d \in 1..Len(means) : means[d] > means[c]})]

FormatResults(grid, o) ==
    LET means == [c \in 1..Len(grid) |-> MeanScore(o, c, "test_score")]
    IN  [params |-> grid,
         mean_test_score |-> means,
         mean_train_score |-> [c \in 1..Len(grid) |-> MeanScore(o, c, "train_score")],
         rank_test_score |-> RankMin(means)]

\* ndarray.argmin: the first index holding the minimum
ArgMin(a) ==
    CHOOSE i \in 1..Len(a) :
        /\ \A k \in 1..Len(a) : a[i] <= a[k]
        /\ \A k \in 1..(i - 1) : a[k] > a[i]

(***************************************************************************)
(* The report of the script (lines 288-296)                                *)
(***************************************************************************)
Row(res, c) ==
    [params |-> res.params[c],
     mean_test_score |-> res.mean_test_score[c],
     mean_train_score |-> res.mean_train_score[c],
     rank_test_score |-> res.rank_test_score[c]]

RECURSIVE RowsWhere(_, _, _)
RowsWhere(res, c, rank) ==
    IF c > Len(res.params) THEN << >>
    ELSE (IF res.rank_test_score[c] = rank THEN << Row(res, c) >> ELSE << >>)
         \o RowsWhere(res, c + 1, rank)

\* search_results[search_results['rank_test_score'] == 1].squeeze():
\* a frame of one row becomes that row, any other frame stays a frame
BestRun(res) ==
    LET rows == RowsWhere(res, 1, 1)
    IN  [squeezed |-> Len(rows) = 1, rows |-> rows]

\* best_run['params']: one configuration for a row, a column for a frame
BestAug(br) ==
    [single |-> br.squeezed,
     values |-> [i \in 1..Len(br.rows) |-> br.rows[i].params]]

\* np.around(x * 100, 2), in hundredths of a percent
Percent(x) == RoundHalfEven(x * 10000, Scale)

\* np.around(best_run[field] * 100, 2).mean(), as a fraction
ReportedScore(br, field) ==
    [num |-> SumSeq([i \in 1..Len(br.rows) |-> Percent(br.rows[i][field])]),
     den |-> Len(br.rows)]

(***************************************************************************)
(* Initial states                                                          *)
(***************************************************************************)
CountChoices == {c \in [1..3 -> 0..MaxCount] : TRUE}

RangeChoices == { <<0, 10>>, <<1, 20>>, <<5, 5>> }

Start ==
    /\ pc = "split"
    /\ err = ""
    /\ train_set = {}
    /\ eval_set = {}
    /\ transforms_freq = << >>
    /\ transforms_time = << >>
    /\ transforms_spatial = << >>
    /\ transforms = << >>
    /\ cudnn_benchmark = FALSE
    /\ seeded = FALSE
    /\ folds = << >>
    /\ out = << >>
    /\ results = << >>
    /\ cv_results_ = << >>
    /\ best_index_ = 0
    /\ best_estimator_ = << >>
    /\ best_run = << >>
    /\ best_aug = << >>
    /\ validation_score = << >>
    /\ training_score = << >>
    /\ score = << >>
    /\ events = << >>

\* the script as written sweeps its three ranges; the sample counts vary
Init ==
    /\ Start
    /\ session \in Datasets
    /\ sfreq = BNCI2014001Sfreq
    /\ ranges = ScriptRanges
    /\ counts \in {c \in CountChoices : c[1] + c[2] + c[3] <= MaxGrid}
    /\ cuda \in BOOLEAN
    /\ run = 1
    /\ prev = << >>

\* the catalog alone: ranges and sample counts vary
InitCatalog ==
    /\ Start
    /\ session \in Datasets
    /\ sfreq = BNCI2014001Sfreq
    /\ ranges \in [1..3 -> RangeChoices]
    /\ counts \in CountChoices
    /\ cuda = FALSE
    /\ run = 1
    /\ prev = << >>

(***************************************************************************)
(* The script, statement by statement                                      *)
(***************************************************************************)
\* lines 117-119
Split ==
    /\ pc = "split"
    /\ train_set' = SplitBy("session_T")
    /\ eval_set' = SplitBy("session_E")
    /\ pc' = "transforms"
    /\ UNCHANGED << err, session, sfreq, ranges, counts, transforms_freq,
                    transforms_time, transforms_spatial, transforms, cuda,
                    cudnn_benchmark, seeded, folds, out, results, cv_results_,
                    best_index_, best_estimator_, best_run, best_aug,
                    validation_score, training_score, score, events, run, prev >>

\* lines 146-153
BuildTransforms ==
    /\ pc = "transforms"
    /\ transforms_freq' = BuildFreq(ranges[1], counts[1])
    /\ transforms_time' = BuildTime(sfreq, ranges[2], counts[2])
    /\ transforms_spatial' = BuildSpatial(ranges[3], counts[3])
    /\ pc' = "seed"
    /\ UNCHANGED << err, session, sfreq, ranges, counts, train_set, eval_set,
                    transforms, cuda, cudnn_benchmark, seeded, folds, out,
                    results, cv_results_, best_index_, best_estimator_,
                    best_run, best_aug, validation_score, training_score,
                    score, events, run, prev >>

\* lines 172-184
SetSeeds ==
    /\ pc = "seed"
    /\ cudnn_benchmark' = cuda
    /\ seeded' = TRUE
    /\ pc' = "grid"
    /\ UNCHANGED << err, session, sfreq, ranges, counts, train_set, eval_set,
                    transforms_freq, transforms_time, transforms_spatial,
                    transforms, cuda, folds, out, results, cv_results_,
                    best_index_, best_estimator_, best_run, best_aug,
                    validation_score, training_score, score, events, run, prev >>

\* lines 258-262
MakeGrid ==
    /\ pc = "grid"
    /\ transforms' = transforms_freq \o transforms_time \o transforms_spatial
    /\ pc' = "fit"
    /\ UNCHANGED << err, session, sfreq, ranges, counts, train_set, eval_set,
                    transforms_freq, transforms_time, transforms_spatial, cuda,
                    cudnn_benchmark, seeded, folds, out, results, cv_results_,
                    best_index_, best_estimator_, best_run, best_aug,
                    validation_score, training_score, score, events, run, prev >>

NextCatalog == Split \/ BuildTransforms \/ SetSeeds \/ MakeGrid

SpecCatalog == InitCatalog /\ [][NextCatalog]_vars

(***************************************************************************)
(* search.fit(train_X, train_y, epochs=n_epochs) (line 276)                *)
(***************************************************************************)
\* refit of the GridSearchCV (line 272)
refit == TRUE

\* an exception leaves the script: the locals of fit are gone
Raise(e) ==
    /\ pc' = "error"
    /\ err' = e
    /\ out' = << >>
    /\ results' = << >>

\* an empty list of values passes, and the search goes on to the splits
EmptyGridIgnored ==
    /\ pc = "fit"
    /\ transforms = << >>
    /\ \E fs \in SplitChoices(train_X) : folds' = fs
    /\ pc' = "cv"
    /\ UNCHANGED << err, session, sfreq, ranges, counts, train_set, eval_set,
                    transforms_freq, transforms_time, transforms_spatial,
                    transforms, cuda, cudnn_benchmark, seeded, out, results,
                    cv_results_, best_index_, best_estimator_, best_run,
                    best_aug, validation_score, training_score, score, events,
                    run, prev >>

\* ParameterGrid refuses an empty list of values
EmptyGridError ==
    /\ pc = "fit"
    /\ transforms = << >>
    /\ Raise("ValueError: empty parameter grid")
    /\ UNCHANGED << session, sfreq, ranges, counts, train_set, eval_set,
                    transforms_freq, transforms_time, transforms_spatial,
                    transforms, cuda, cudnn_benchmark, seeded, folds,
                    cv_results_, best_index_, best_estimator_, best_run,
                    best_aug, validation_score, training_score, score, events,
                    run, prev >>

\* KFold.split refuses fewer samples than splits
TooFewSamplesError ==
    /\ pc = "fit"
    /\ transforms # << >>
    /\ Cardinality(train_X) < n_splits
    /\ Raise("ValueError: n_splits greater than the number of samples")
    /\ UNCHANGED << session, sfreq, ranges, counts, train_set, eval_set,
                    transforms_freq, transforms_time, transforms_spatial,
                    transforms, cuda, cudnn_benchmark, seeded, folds,
                    cv_results_, best_index_, best_estimator_, best_run,
                    best_aug, validation_score, training_score, score, events,
                    run, prev >>

\* the candidates and the splits are listed before the first fit
StartSearch ==
    /\ pc = "fit"
    /\ transforms # << >>
    /\ Cardinality(train_X) >= n_splits
    /\ \E fs \in SplitChoices(train_X) : folds' = fs
    /\ events' = Append(events, << "split", 0, 0 >>)
    /\ pc' = "cv"
    /\ UNCHANGED << err, session, sfreq, ranges, counts, train_set, eval_set,
                    transforms_freq, transforms_time, transforms_spatial,
                    transforms, cuda, cudnn_benchmark, seeded, out, results,
                    cv_results_, best_index_, best_estimator_, best_run,
                    best_aug, validation_score, training_score, score, run, prev >>

\* one _fit_and_score call, in cross-validation order, one at a time
FitAndScore ==
    /\ pc = "cv"
    /\ Len(out) < NFits
    /\ LET j == Len(out) + 1
       IN  \E r \in FitOutcomes(j) :
             /\ events' = events \o << << "fit", CandOf(j), SplitOf(j) >> >>
                            \o (IF r.failed
                                THEN << << "fit_failed", CandOf(j), SplitOf(j) >> >>
                                ELSE << >>)
             /\ IF r.failed /\ error_score = "raise"
                THEN Raise("fit failed")
                ELSE \* a numeric error_score stands in for the scores
                     /\ out' = Append(out, [test_score |-> r.test_score,
                                            train_score |-> r.train_score])
                     /\ pc' = IF j = NFits THEN "rank" ELSE "cv"
                     /\ UNCHANGED << err, results >>
    /\ UNCHANGED << session, sfreq, ranges, counts, train_set, eval_set,
                    transforms_freq, transforms_time, transforms_spatial,
                    transforms, cuda, cudnn_benchmark, seeded, folds,
                    cv_results_, best_index_, best_estimator_, best_run,
                    best_aug, validation_score, training_score, score, run, prev >>

\* _format_results, then best_index_ = results['rank_test_score'].argmin()
Rank ==
    /\ pc = "rank"
    /\ LET res == FormatResults(transforms, out)
       IN  /\ results' = << res >>
           /\ best_index_' = ArgMin(res.rank_test_score)
    /\ events' = Append(events, << "rank", 0, 0 >>)
    /\ pc' = "refit"
    /\ UNCHANGED << err, session, sfreq, ranges, counts, train_set, eval_set,
                    transforms_freq, transforms_time, transforms_spatial,
                    transforms, cuda, cudnn_benchmark, seeded, folds, out,
                    cv_results_, best_estimator_, best_run, best_aug,
                    validation_score, training_score, score, run, prev >>

\* best_estimator_ = clone(estimator).set_params(**best_params_).fit(X, y);
\* then cv_results_ = results, and fit returns
Refit ==
    /\ pc = "refit"
    /\ IF refit
       THEN /\ events' = Append(events, << "refit", best_index_, 0 >>)
            /\ \/ /\ Raise("refit failed")
                  /\ UNCHANGED << best_estimator_, cv_results_ >>
               \/ /\ best_estimator_' =
                        << [params |-> results[1].params[best_index_],
                            index |-> best_index_,
                            X |-> train_X] >>
                  /\ cv_results_' = results
                  /\ pc' = "report"
                  /\ UNCHANGED << err, out, results >>
       ELSE /\ cv_results_' = results
            /\ pc' = "report"
            /\ UNCHANGED << err, out, results, best_estimator_, events >>
    /\ UNCHANGED << session, sfreq, ranges, counts, train_set, eval_set,
                    transforms_freq, transforms_time, transforms_spatial,
                    transforms, cuda, cudnn_benchmark, seeded, folds,
                    best_index_, best_run, best_aug, validation_score,
                    training_score, score, run, prev >>

(***************************************************************************)
(* After the search (lines 288-303)                                        *)
(***************************************************************************)
\* lines 288-298
Report ==
    /\ pc = "report"
    /\ LET br == BestRun(cv_results_[1])
       IN  /\ best_run' = << br >>
           /\ best_aug' = << BestAug(br) >>
           /\ validation_score' = << ReportedScore(br, "mean_test_score") >>
           /\ training_score' = << ReportedScore(br, "mean_train_score") >>
    /\ events' = Append(events, << "report", 0, 0 >>)
    /\ pc' = "score"
    /\ UNCHANGED << err, session, sfreq, ranges, counts, train_set, eval_set,
                    transforms_freq, transforms_time, transforms_spatial,
                    transforms, cuda, cudnn_benchmark, seeded, folds, out,
                    results, cv_results_, best_index_, best_estimator_, score,
                    run, prev >>

\* lines 300-303: search.score delegates to best_estimator_
Score ==
    /\ pc = "score"
    /\ IF best_estimator_ = << >>
       THEN /\ Raise("NotFittedError")
            /\ UNCHANGED << score, events >>
       ELSE /\ \E correct \in 0..Cardinality(eval_X) :
                 score' = << [value |-> Accuracy(correct, eval_X),
                              X |-> eval_X,
                              params |-> best_estimator_[1].params] >>
            /\ events' = Append(events, << "score", 0, 0 >>)
            /\ pc' = "done"
            /\ UNCHANGED << err, out, results >>
    /\ UNCHANGED << session, sfreq, ranges, counts, train_set, eval_set,
                    transforms_freq, transforms_time, transforms_spatial,
                    transforms, cuda, cudnn_benchmark, seeded, folds,
                    cv_results_, best_index_, best_estimator_, best_run,
                    best_aug, validation_score, training_score, run, prev >>

Next ==
    \/ Split \/ BuildTransforms \/ SetSeeds \/ MakeGrid
    \/ EmptyGridError \/ TooFewSamplesError \/ StartSearch
    \/ FitAndScore \/ Rank \/ Refit \/ Report \/ Score

Spec == Init /\ [][Next]_vars

(***************************************************************************)
(* A second, independent execution of the script on the same machine and   *)
(* data                                                                    *)
(***************************************************************************)
RunIds == {1, 2}

\* what the finished execution leaves for comparison: its ranking, and what
\* a reproducible training is bound to repeat
Rerun ==
    /\ pc \in {"done", "error"}
    /\ run + 1 \in RunIds
    /\ run' = run + 1
    /\ prev' = << [ranks |-> IF cv_results_ = << >> THEN << >>
                             ELSE cv_results_[1].rank_test_score,
                   X |-> train_X,
                   folds |-> folds,
                   grid |-> transforms,
                   out |-> IF Reproducible THEN out ELSE << >>] >>
    /\ pc' = "split"
    /\ err' = ""
    /\ train_set' = {}
    /\ eval_set' = {}
    /\ transforms_freq' = << >>
    /\ transforms_time' = << >>
    /\ transforms_spatial' = << >>
    /\ transforms' = << >>
    /\ cudnn_benchmark' = FALSE
    /\ seeded' = FALSE
    /\ folds' = << >>
    /\ out' = << >>
    /\ results' = << >>
    /\ cv_results_' = << >>
    /\ best_index_' = 0
    /\ best_estimator_' = << >>
    /\ best_run' = << >>
    /\ best_aug' = << >>
    /\ validation_score' = << >>
    /\ training_score' = << >>
    /\ score' = << >>
    /\ events' = << >>
    /\ UNCHANGED << session, sfreq, ranges, counts, cuda >>

\* two executions; only the frequency sweep is searched
InitTwoRuns ==
    /\ Init
    /\ counts[2] = 0
    /\ counts[3] = 0

NextTwoRuns == Next \/ Rerun

SpecTwoRuns == InitTwoRuns /\ [][NextTwoRuns]_vars

(***************************************************************************)
(* Properties                                                              *)
(***************************************************************************)
SessionT == {i \in DOMAIN session : session[i] = "session_T"}
SessionE == {i \in DOMAIN session : session[i] = "session_E"}

Called(name) == {i \in DOMAIN events : events[i][1] = name}
FitCalls(c, s) == {i \in DOMAIN events : events[i] = << "fit", c, s >>}
GridSize == counts[1] + counts[2] + counts[3]
BeforeSearch == {"split", "transforms", "seed", "grid", "fit"}

\* sum of the validation scores of candidate c over the folds, from the calls
ValSum(c) == SumSeq([s \in 1..n_splits |-> out[(c - 1) * n_splits + s].test_score])
TrainSum(c) == SumSeq([s \in 1..n_splits |-> out[(c - 1) * n_splits + s].train_score])

\* the first candidate, in grid order, of highest mean validation score
TopCandidate ==
    CHOOSE c \in 1..Len(transforms) :
        /\ \A d \in 1..Len(transforms) : ValSum(c) >= ValSum(d)
        /\ \A d \in 1..(c - 1) : ValSum(d) < ValSum(c)

\* C1: no window of the evaluation session is among the training or the
\* validation indices of any fold, nor in the data of the refit; folds and
\* refit draw from session_T only, and the evaluation score is computed from
\* the windows of session_E only.
C1_DataIsolation ==
    /\ \A k \in DOMAIN folds :
          /\ (folds[k].train \cup folds[k].test) \cap SessionE = {}
          /\ (folds[k].train \cup folds[k].test) \subseteq SessionT
    /\ best_estimator_ # << >> =>
          /\ best_estimator_[1].X \cap SessionE = {}
          /\ best_estimator_[1].X \subseteq SessionT
    /\ score # << >> =>
          /\ score[1].X \subseteq SessionE
          /\ score[1].X \cap SessionT = {}

C1_Witness ==
    /\ pc = "done"
    /\ folds # << >>
    /\ best_estimator_ # << >>
    /\ score # << >>
    /\ score[1].X # {}

\* C2: the evaluation score is produced only after the refit has completed;
\* the refit starts only after every (configuration, fold) run has completed
\* and the candidates are ranked; no scoring precedes the refit.
C2_Ordering ==
    /\ pc \in {"rank", "refit", "report", "score", "done"} =>
          \A c \in 1..Len(transforms), s \in 1..n_splits :
              FitCalls(c, s) # {} /\ Len(out) = Len(transforms) * n_splits
    /\ \A i \in Called("refit") :
          /\ \A c \in 1..Len(transforms), s \in 1..n_splits :
                \E j \in FitCalls(c, s) : j < i
          /\ \E j \in Called("rank") : j < i
          /\ \A j \in Called("fit") : j < i
    /\ \A i \in Called("score") : \E j \in Called("refit") : j < i
    /\ score # << >> => best_estimator_ # << >>

C2_Witness ==
    /\ pc = "done"
    /\ Called("score") # {}
    /\ Called("refit") # {}
    /\ Len(transforms) >= 2

\* C3: in the report of a successful search every configuration of rank 1
\* has a mean validation score, the average of its fold scores, that is at
\* least that of every other configuration, and some configuration has rank 1.
C3_RankingCorrect ==
    cv_results_ # << >> =>
        LET r == cv_results_[1]
        IN  /\ \E c \in 1..Len(transforms) : r.rank_test_score[c] = 1
            /\ \A c \in 1..Len(transforms) :
                  /\ r.mean_test_score[c] * n_splits = ValSum(c)
                  /\ r.rank_test_score[c] = 1 =>
                        \A d \in 1..Len(transforms) :
                            r.mean_test_score[c] >= r.mean_test_score[d]

C3_Witness ==
    /\ cv_results_ # << >>
    /\ Len(transforms) >= 2
    /\ \E c, d \in 1..Len(transforms) :
          /\ cv_results_[1].rank_test_score[c] = 1
          /\ cv_results_[1].mean_test_score[c] > cv_results_[1].mean_test_score[d]

\* C4: a failed fit of a (configuration, fold) run ends the search with an
\* error: no later run is started, nothing is ranked or reported, there is
\* no refit and no evaluation score.
C4_FailFast ==
    \A i \in Called("fit_failed") :
        /\ i = Len(events)
        /\ pc = "error"
        /\ err = "fit failed"
        /\ results = << >>
        /\ cv_results_ = << >>
        /\ best_index_ = 0
        /\ best_estimator_ = << >>
        /\ best_run = << >>
        /\ score = << >>

C4_Witness ==
    /\ pc = "error"
    /\ Called("fit_failed") # {}
    /\ Cardinality(Called("fit")) >= 2
    /\ Cardinality(Called("fit")) < Len(transforms) * n_splits

\* C5: with an empty grid the search fails with the grid error before any
\* fold is processed: no fit call is ever made, and no report and no
\* evaluation score are produced.
C5_EmptyGridFails ==
    GridSize = 0 =>
        /\ Called("fit") = {}
        /\ folds = << >>
        /\ cv_results_ = << >>
        /\ best_run = << >>
        /\ score = << >>
        /\ pc \notin BeforeSearch =>
              pc = "error" /\ err = "ValueError: empty parameter grid"

C5_Witness ==
    /\ GridSize = 0
    /\ pc = "error"
    /\ err = "ValueError: empty parameter grid"
    /\ Called("fit") = {}

\* a parameter [num, den] equals a bound given in tenths
ParamIs(param, tenths) == param.num * 10 = tenths * param.den

\* the inputs of the catalog are valid: lower <= upper, at least one sample
ValidInputs ==
    \A k \in 1..3 : ranges[k][1] <= ranges[k][2] /\ counts[k] >= 1

\* position in the grid of the first and of the last configuration of a kind
FirstOf(k) == SumSeq([i \in 1..(k - 1) |-> counts[i]]) + 1
LastOf(k) == SumSeq([i \in 1..k |-> counts[i]])

\* the bound a sweep of num samples ends on: linspace yields the lower bound
\* alone for a single sample
LastBound(k) == IF counts[k] >= 2 THEN ranges[k][2] ELSE ranges[k][1]

\* C6 as stated: for valid inputs the grid has as many configurations as the
\* three sample counts together, and for each kind the parameter of its first
\* configuration is the lower bound and that of its last the upper bound.
C6_EndpointsAsStated ==
    (pc = "fit" /\ ValidInputs) =>
        /\ Len(transforms) = GridSize
        /\ \A k \in 1..3 :
              /\ transforms[FirstOf(k)].kind = Kinds[k]
              /\ transforms[LastOf(k)].kind = Kinds[k]
              /\ ParamIs(transforms[FirstOf(k)].param, ranges[k][1])
              /\ ParamIs(transforms[LastOf(k)].param, ranges[k][2])

\* C6 amended: for valid inputs the grid has as many configurations as the
\* three sample counts together, in the order frequency, time, spatial; the
\* first frequency and spatial parameters are the lower bound, the last the
\* upper bound when the kind has at least two samples and the lower bound
\* when it has one; the time parameters are these bounds in samples,
\* int(sfreq * bound).
C6_Endpoints ==
    (pc = "fit" /\ ValidInputs) =>
        /\ Len(transforms) = GridSize
        /\ \A k \in 1..3 :
              /\ \A i \in FirstOf(k)..LastOf(k) : transforms[i].kind = Kinds[k]
              /\ IF Kinds[k] = "SmoothTimeMask"
                 THEN /\ transforms[FirstOf(k)].param =
                             [num |-> (sfreq * ranges[k][1]) \div 10, den |-> 1]
                      /\ transforms[LastOf(k)].param =
                             [num |-> (sfreq * LastBound(k)) \div 10, den |-> 1]
                 ELSE /\ ParamIs(transforms[FirstOf(k)].param, ranges[k][1])
                      /\ ParamIs(transforms[LastOf(k)].param, LastBound(k))

C6_Witness ==
    /\ pc = "fit"
    /\ ValidInputs
    /\ \A k \in 1..3 : counts[k] >= 2 /\ ranges[k][1] < ranges[k][2]
    /\ Len(transforms) = GridSize

C8_ReportComplete ==
    cv_results_ # << >> =>
        LET r == cv_results_[1]
            n == GridSize
        IN  /\ n >= 1
            /\ r.params = transforms
            /\ Len(r.params) = n
            /\ DOMAIN r.mean_test_score = 1..n
            /\ DOMAIN r.mean_train_score = 1..n
            /\ DOMAIN r.rank_test_score = 1..n
            /\ \A c \in 1..n :
                  /\ 0 <= r.mean_test_score[c] /\ r.mean_test_score[c] <= Scale
                  /\ r.rank_test_score[c] \in 1..n
                  /\ \A s \in 1..n_splits : Cardinality(FitCalls(c, s)) = 1
            /\ Cardinality(Called("fit")) = n * n_splits
            /\ n = 1 => r.rank_test_score = << 1 >>

C8_Witness ==
    /\ cv_results_ # << >>
    /\ GridSize = 1
    /\ cv_results_[1].rank_test_score = << 1 >>
    /\ Len(out) = n_splits

\* C9: the run reports a single best configuration, the first in grid order
\* among those of highest mean validation score, with that configuration's
\* own mean validation and mean training accuracy, also when several
\* configurations tie for the highest mean validation score.
C9_SingleBest ==
    best_run # << >> =>
        /\ best_aug[1].single
        /\ best_aug[1].values = << transforms[TopCandidate] >>
        /\ validation_score[1].num =
              Percent(ValSum(TopCandidate) \div n_splits) * validation_score[1].den
        /\ training_score[1].num =
              Percent(TrainSum(TopCandidate) \div n_splits) * training_score[1].den

\* C10: the configuration the model is refit with, and then scored on the
\* evaluation session, has rank 1 and is the configuration reported as
\* best_aug, also when several configurations tie.
C10_RefitIsReportedBest ==
    score # << >> =>
        /\ cv_results_[1].rank_test_score[best_estimator_[1].index] = 1
        /\ score[1].params = best_estimator_[1].params
        /\ best_estimator_[1].params = transforms[best_estimator_[1].index]
        /\ best_aug[1].single
        /\ best_aug[1].values = << best_estimator_[1].params >>

====
